---- MODULE Spec2Model ----
(***************************************************************************)
(* A model of the historical player-statistics scraper:                    *)
(*   scraper/historical_scraper.py  listing extraction, per-update and     *)
(*                                  per-version fetch, id splitting, the   *)
(*                                  per-worker download and the pool join  *)
(*   main.py                        the resume logic and the final write   *)
(*                                                                         *)
(* Four specifications share the operators below:                          *)
(*   SpecSplit    _compute_id_splits applied to bounded id sequences       *)
(*   SpecListing  extract_player_attributes applied to bounded pages       *)
(*   SpecFetch    retrieve_player_stats_by_fifa_version for one player     *)
(*   Spec         main(): resume, split, N workers interleaved, join       *)
(***************************************************************************)
EXTENDS Integers, Sequences, FiniteSets, Bags, TLC

VARIABLES
    \* SpecSplit
    list_to_split, n_split, splitted_list, splitPc,
    \* SpecListing
    injected, plain_text, players_attributes_df, listPc,
    \* SpecFetch
    fifa_version, player_id, player_stats, fetchPc,
    \* the web site: which kind of page each (player, update) serves
    site,
    \* Spec: the files main() finds, and the run
    attr_file, stats_files, prior_file,
    player_ids, n_threads, chunks, wpos, acc, wpc, wres, chunk_file,
    phase, final_table, main_output

splitVars == <<list_to_split, n_split, splitted_list, splitPc>>
listVars == <<injected, plain_text, players_attributes_df, listPc>>
fetchVars == <<fifa_version, player_id, player_stats, fetchPc>>
fileVars == <<attr_file, stats_files, prior_file>>
runVars == <<player_ids, n_threads, chunks, wpos, acc, wpc, wres, chunk_file,
             phase, final_table, main_output>>
vars == <<splitVars, listVars, fetchVars, site, fileVars, runVars>>

(***************************************************************************)
(* Bounds of the model.                                                    *)
(***************************************************************************)
\* ids are drawn from 1..MaxId
MaxId == 3
\* the worker count n_threads ranges over 1..MaxThreads
MaxThreads == 2
\* length of the sequences handed to _compute_id_splits in SpecSplit
MaxLen == 3
\* number of <tr> rows of a listing page
MaxRows == 2
\* updates 1..MaxLive of a version may serve any kind of page; every later
\* update of the catalogue serves the page of a superseded version
MaxLive == 2
\* a prior statistics file covers at most MaxPrior ids
MaxPrior == 1

(***************************************************************************)
(* Generic helpers.                                                        *)
(***************************************************************************)
Range(s) == {s[i] : i \in DOMAIN s}

RECURSIVE Flatten(_)
\* the in-order concatenation of a sequence of sequences
Flatten(ss) ==
    IF ss = <<>> THEN <<>>
    ELSE IF Len(ss) = 1 THEN ss[1]
    ELSE LET half == Len(ss) \div 2
         IN  Flatten(SubSeq(ss, 1, half)) \o Flatten(SubSeq(ss, half + 1, Len(ss)))

RECURSIVE SeqsUpTo(_, _)
\* all sequences over S of length at most n
SeqsUpTo(S, n) ==
    IF n = 0 THEN {<<>>}
    ELSE LET shorter == SeqsUpTo(S, n - 1)
         IN  shorter \cup {Append(s, x) : s \in {t \in shorter : Len(t) = n - 1}, x \in S}

RECURSIVE SortedSeq(_)
\* the elements of a finite set of integers in increasing order
SortedSeq(S) ==
    IF S = {} THEN <<>>
    ELSE LET m == CHOOSE x \in S : \A y \in S : x <= y
         IN  <<m>> \o SortedSeq(S \ {m})

\* the multiset of the elements of a sequence
SeqToBag(s) == [x \in Range(s) |-> Cardinality({i \in DOMAIN s : s[i] = x})]

(***************************************************************************)
(* _compute_id_splits: numpy.array_split(ary, n).                          *)
(***************************************************************************)
\* the remainder of the ids is dropped: every section gets Ntotal // Nsections
SectionSizesFloor(Ntotal, Nsections) ==
    [i \in 1..Nsections |-> Ntotal \div Nsections]

\* Neach_section, extras = divmod(Ntotal, Nsections);
\* extras sections of Neach_section + 1, then the others of Neach_section
SectionSizes(Ntotal, Nsections) ==
    [i \in 1..Nsections |->
        IF i <= Ntotal % Nsections THEN (Ntotal \div Nsections) + 1
        ELSE Ntotal \div Nsections]

RECURSIVE DivPoint(_, _)
\* div_points = cumsum([0] + section_sizes); DivPoint(sizes, i) is div_points[i]
DivPoint(sizes, i) ==
    IF i = 0 THEN 0 ELSE DivPoint(sizes, i - 1) + sizes[i]

\* sub_arys[i] = ary[div_points[i] : div_points[i+1]]
compute_id_splits(list, n) ==
    LET sizes == SectionSizes(Len(list), n)
    IN  [i \in 1..n |-> SubSeq(list, DivPoint(sizes, i - 1) + 1, DivPoint(sizes, i))]

(***************************************************************************)
(* Listing pages and extract_player_attributes.                            *)
(* Text is a sequence of one-character strings, so that strip() has        *)
(* something to remove. A <td> cell is a record of its <img> ids, its <a>  *)
(* anchors and its text; a <tr> row is the sequence of its cells. Python   *)
(* indexes td from 0, the model from 1.                                    *)
(***************************************************************************)
Whitespace == {" ", "\n"}

RECURSIVE LStrip(_)
LStrip(t) ==
    IF t # <<>> /\ Head(t) \in Whitespace THEN LStrip(Tail(t)) ELSE t

RECURSIVE RStrip(_)
RStrip(t) ==
    IF t # <<>> /\ t[Len(t)] \in Whitespace THEN RStrip(SubSeq(t, 1, Len(t) - 1)) ELSE t

\* str.strip()
Strip(t) == RStrip(LStrip(t))

\* the players a listing row can show
ListedPlayers ==
    { [ID |-> "158023", Name |-> "L. Messi", Nationality |-> "Argentina", Age |-> <<"3", "2">>,
       Overall |-> <<"9", "4">>, Potential |-> <<"9", "5">>, Club |-> "FC Barcelona",
       Value |-> <<"9", "6", "M">>],
      [ID |-> "20801", Name |-> "Cristiano Ronaldo", Nationality |-> "Portugal", Age |-> <<"3", "4">>,
       Overall |-> <<"9", "3">>, Potential |-> <<"9", "3">>, Club |-> "Juventus",
       Value |-> <<"5", "8", "M">>] }

\* what a page's author injects into one row: the player, the whitespace
\* around the cell texts, and the anchor or image the row may lack
InjectedRows ==
    [player : ListedPlayers, pad : 0..1, defect : {"none", "no_img", "one_anchor"}]

Padded(t, pad) == IF pad = 0 THEN t ELSE <<"\n", " ">> \o t \o <<" ">>

Cell(imgs, anchors, text) == [img |-> imgs, a |-> anchors, text |-> text]

\* the <tr> the site serves for an injected row
RenderRow(inj) ==
    LET p == inj.player
        flag == [title |-> p.Nationality, text |-> ""]
        name == [title |-> p.Name, text |-> p.Name]
        team == [title |-> p.Club, text |-> p.Club]
    IN  << Cell(IF inj.defect = "no_img" THEN <<>> ELSE <<p.ID>>, <<>>, <<>>),
           Cell(<<>>, IF inj.defect = "one_anchor" THEN <<flag>> ELSE <<flag, name>>, <<>>),
           Cell(<<>>, <<>>, Padded(p.Age, inj.pad)),
           Cell(<<>>, <<>>, Padded(p.Overall, inj.pad)),
           Cell(<<>>, <<>>, Padded(p.Potential, inj.pad)),
           Cell(<<>>, <<team>>, <<>>),
           Cell(<<>>, <<>>, Padded(p.Value, inj.pad)) >>

\* a row on which every find()/findAll()[k] of the loop body succeeds
RowWellFormed(td) ==
    /\ Len(td) >= 7
    /\ td[1].img # <<>>
    /\ Len(td[2].a) >= 2
    /\ td[6].a # <<>>

\* the overall rating is read from td[2], the age cell
ExtractRowWrongCell(td) ==
    [ID |-> td[1].img[1], Name |-> td[2].a[2].text, Nationality |-> td[2].a[1].title,
     Overall |-> Strip(td[3].text), Potential |-> Strip(td[5].text),
     Club |-> td[6].a[1].text, Value |-> Strip(td[7].text)]

\* lines 54-63: one record per row
ExtractRow(td) ==
    [ID |-> td[1].img[1], Name |-> td[2].a[2].text, Nationality |-> td[2].a[1].title,
     Overall |-> Strip(td[4].text), Potential |-> Strip(td[5].text),
     Club |-> td[6].a[1].text, Value |-> Strip(td[7].text)]

RECURSIVE extract_player_attributes(_)
\* the loop over tbody's rows; a row lacking an expected element raises and
\* the whole page's extraction is lost
extract_player_attributes(rows) ==
    IF rows = <<>> THEN [raised |-> FALSE, df |-> <<>>]
    ELSE LET front == extract_player_attributes(SubSeq(rows, 1, Len(rows) - 1))
             td == rows[Len(rows)]
         IN  IF front.raised \/ ~RowWellFormed(td) THEN [raised |-> TRUE, df |-> <<>>]
             ELSE [raised |-> FALSE, df |-> Append(front.df, ExtractRow(td))]

(***************************************************************************)
(* Detail pages: the request, the site's answer, the per-update fetch.     *)
(***************************************************************************)
\* LAST_UPDATE_PER_FIFA_VERSION = {16: 58, 17: 99, 18: 84, 19: 75, 20: 8}
LAST_UPDATE_PER_FIFA_VERSION ==
    [v \in 16..20 |-> CASE v = 16 -> 58 [] v = 17 -> 99 [] v = 18 -> 84
                        [] v = 19 -> 75 [] v = 20 -> 8]

RECURSIVE Digits(_)
\* str(n) for n >= 0, as the sequence of its decimal digits
Digits(n) == IF n < 10 THEN <<n>> ELSE Append(Digits(n \div 10), n % 10)

RECURSIVE Number(_)
\* the number a sequence of decimal digits writes
Number(d) == IF d = <<>> THEN 0 ELSE 10 * Number(SubSeq(d, 1, Len(d) - 1)) + d[Len(d)]

\* str.zfill(2)
ZFill2(d) == IF Len(d) < 2 THEN <<0>> \o d ELSE d

\* lines 229-231: player_url + f"?r={fifa_version}00{padded_update_version}&set=true"
StatsUrl(pid, ver, upd) ==
    [player |-> pid, r |-> Digits(ver) \o <<0, 0>> \o ZFill2(Digits(upd))]

\* the kinds of page the site serves for a request
\*   valid       banner of the requested version, body complete
\*   mismatch    banner of another version (the update does not exist there)
\*   no_version  the banner does not start with "FIFA <digits>"
\*   malformed   banner of the requested version, body lacking an element
PageKinds == {"valid", "mismatch", "no_version", "malformed"}

\* the site reads r as <version: 2 digits> 00 <update>
KindServed(url) ==
    LET upd == Number(SubSeq(url.r, 5, Len(url.r)))
    IN  IF upd \in 1..MaxLive THEN site[url.player][upd] ELSE "mismatch"

\* requests.get(url).text
Page(url) ==
    LET ver == Number(SubSeq(url.r, 1, 2))
        upd == Number(SubSeq(url.r, 5, Len(url.r)))
        kind == KindServed(url)
    IN  [banner |-> [prefix |-> IF kind = "no_version" THEN "" ELSE "FIFA",
                     version |-> IF kind = "no_version" THEN <<>>
                                 ELSE IF kind = "mismatch" THEN Digits(ver + 1)
                                 ELSE Digits(ver),
                     date |-> [isdate |-> TRUE, val |-> 100 * ver + upd]],
         body_ok |-> kind # "malformed",
         stats |-> [owner |-> url.player, version |-> ver, update |-> upd]]

\* re.findall('^FIFA (\d+)', banner.text)
ParsedFifaVersion(page) ==
    IF page.banner.prefix = "FIFA" /\ page.banner.version # <<>>
    THEN <<page.banner.version>> ELSE <<>>

\* only the first digit of the version is compared
SourceVersionFirstDigit(page, ver) ==
    LET parsed == ParsedFifaVersion(page)
    IN  IF Len(parsed) # 1 THEN [raised |-> TRUE, value |-> FALSE]
        ELSE [raised |-> FALSE, value |-> Head(Digits(ver)) = Head(parsed[1])]

\* lines 85-92: RuntimeError when the version is not extracted, else
\* str(fifa_version) == parsed_fifa_version[0]
source_update_version_is_valid(page, ver) ==
    LET parsed == ParsedFifaVersion(page)
    IN  IF Len(parsed) # 1 THEN [raised |-> TRUE, value |-> FALSE]
        ELSE [raised |-> FALSE, value |-> Digits(ver) = parsed[1]]

\* lines 123-131: the date of the update, read from the banner
parse_fifa_update_date(page) == page.banner.date

\* lines 153-205: one row, indexed by the date; a body lacking an expected
\* element raises
extract_stats(page, date) ==
    IF ~page.body_ok THEN [raised |-> TRUE, df |-> <<>>]
    ELSE [raised |-> FALSE, df |-> <<[index |-> date, stats |-> page.stats]>>]

\* lines 229-240
retrieve_player_stats_by_fifa_update(pid, ver, upd) ==
    LET url == StatsUrl(pid, ver, upd)
        page == Page(url)
        valid == source_update_version_is_valid(page, ver)
    IN  IF valid.raised THEN [raised |-> TRUE, df |-> <<>>, url |-> url]
        ELSE IF ~valid.value THEN [raised |-> FALSE, df |-> <<>>, url |-> url]
        ELSE LET st == extract_stats(page, parse_fifa_update_date(page))
             IN  [raised |-> st.raised, df |-> st.df, url |-> url]

\* range(1, C): the last update of the catalogue is never requested
LastRequestedShort(ver) == LAST_UPDATE_PER_FIFA_VERSION[ver] - 1

\* line 266: range(1, LAST_UPDATE_PER_FIFA_VERSION[fifa_version] + 1) ends here
LastRequested(ver) == LAST_UPDATE_PER_FIFA_VERSION[ver]

\* pd.concat(frames, sort=True): the rows of the frames in order, each row
\* keeping its index
PdConcat(frames) == Flatten(frames)

\* the state of the loop of lines 264-271 before its first iteration
LoopStart ==
    [upd |-> 1, frames |-> <<>>, requests |-> <<>>, raised |-> FALSE, raisedAt |-> 0,
     df |-> <<>>]

\* lines 266-271, one iteration: the page of update st.upd is requested and
\* its frame appended; an exception leaves the loop
LoopBody(st, pid, ver) ==
    LET r == retrieve_player_stats_by_fifa_update(pid, ver, st.upd)
    IN  IF r.raised
        THEN [st EXCEPT !.raised = TRUE, !.raisedAt = st.upd,
                        !.requests = Append(st.requests, r.url)]
        ELSE [st EXCEPT !.upd = st.upd + 1, !.frames = Append(st.frames, r.df),
                        !.requests = Append(st.requests, r.url)]

\* line 273: pd.concat raises ValueError on an empty list of frames
LoopReturn(st) ==
    IF st.frames = <<>> THEN [st EXCEPT !.raised = TRUE]
    ELSE [st EXCEPT !.df = PdConcat(st.frames)]

RECURSIVE FetchUpdates(_, _, _)
\* the loop run to its end
FetchUpdates(st, pid, ver) ==
    IF st.raised THEN st
    ELSE IF st.upd > LastRequested(ver) THEN LoopReturn(st)
    ELSE FetchUpdates(LoopBody(st, pid, ver), pid, ver)

\* lines 264-273
retrieve_player_stats_by_fifa_version(pid, ver) == FetchUpdates(LoopStart, pid, ver)

(***************************************************************************)
(* The per-worker download, the pool and main().                           *)
(***************************************************************************)
\* main.py: starting_fifa_version = 20, ending_fifa_version = 20
starting_fifa_version == 20
ending_fifa_version == 20

\* line 317 names the id column of every table the scraper writes
OutputIdColumn == "player_id"
\* main.py line 51 reads the ids of the prior output from this column
ResumeIdColumn == "player_api_id"

NoTable == [present |-> FALSE, rows |-> <<>>]
Table(rows) == [present |-> TRUE, rows |-> rows]

\* every row is tagged with its position in the frame, not with the id
TagRowsWithPosition(df, pid) ==
    [i \in DOMAIN df |-> [index |-> df[i].index, stats |-> df[i].stats, player_id |-> i]]

\* line 317: player_stats_for_version['player_id'] = [player_id for i in range(len(df))]
TagRows(df, pid) ==
    [i \in DOMAIN df |-> [index |-> df[i].index, stats |-> df[i].stats, player_id |-> pid]]

RECURSIVE PlayerFrames(_, _, _)
\* lines 312-319 for one player: the versions from ver to ending_fifa_version
PlayerFrames(pid, ver, frames) ==
    IF ver > ending_fifa_version THEN [raised |-> FALSE, frames |-> frames]
    ELSE LET r == retrieve_player_stats_by_fifa_version(pid, ver)
         IN  IF r.raised THEN [raised |-> TRUE, frames |-> frames]
             ELSE PlayerFrames(pid, ver + 1, Append(frames, TagRows(r.df, pid)))

\* the last worker's table is left out
PdConcatDropLast(tables) ==
    LET rows == Flatten(SubSeq(tables, 1, Len(tables) - 1))
    IN  [i \in DOMAIN rows |->
            [index |-> [isdate |-> FALSE, val |-> i - 1], stats |-> rows[i].stats,
             player_id |-> rows[i].player_id]]

\* line 371: pd.concat(player_stats, ignore_index=True): the rows in task
\* order, the index of every row replaced by its position 0..n-1
PdConcatIgnoreIndex(tables) ==
    LET rows == Flatten(tables)
    IN  [i \in DOMAIN rows |->
            [index |-> [isdate |-> FALSE, val |-> i - 1], stats |-> rows[i].stats,
             player_id |-> rows[i].player_id]]

\* np.unique(player_df['ID'].values): sorted, without duplicates
NpUnique(ids) == SortedSeq(ids)

\* np.setdiff1d(ar1, ar2): the sorted unique values of ar1 that are not in ar2
NpSetDiff1d(ar1, ids2) == SortedSeq(Range(ar1) \ ids2)

\* a worker's exception is dropped and the others' tables are returned
StarmapReturnsTolerant(pcs) == \A w \in DOMAIN pcs : pcs[w] \in {"returned", "failed"}

\* lines 367-369: starmap returns the list of results once every task returned
StarmapReturns(pcs) == \A w \in DOMAIN pcs : pcs[w] = "returned"

\* lines 367-369: starmap re-raises the exception of a task that raised
StarmapRaises(pcs) == \E w \in DOMAIN pcs : pcs[w] = "failed"

Workers == 1..n_threads

\* main.py lines 32-56 up to the call, and lines 360-368 of the download:
\* the files are read, the ids to compute are split, the pool is started
MainStart ==
    /\ phase = "start"
    /\ IF ~attr_file.present
         THEN \* line 40 passes output_file, which the method does not accept
              phase' = "TypeError" /\ UNCHANGED <<player_ids, chunks>>
       ELSE IF stats_files
         THEN \* line 49: a file matched the glob and force_overwrite is False
              phase' = "skipped" /\ UNCHANGED <<player_ids, chunks>>
       ELSE IF ~prior_file.present
         THEN \* line 50: pd.read_parquet of a missing file
              phase' = "FileNotFoundError" /\ UNCHANGED <<player_ids, chunks>>
       ELSE IF prior_file.idcol # ResumeIdColumn
         THEN \* line 51: partial_player_stats['player_api_id']
              phase' = "KeyError" /\ UNCHANGED <<player_ids, chunks>>
       ELSE /\ player_ids' = NpSetDiff1d(NpUnique(attr_file.ids), prior_file.ids)
            /\ chunks' = compute_id_splits(player_ids', n_threads)
            /\ phase' = "running"
    /\ UNCHANGED <<splitVars, listVars, fetchVars, site, fileVars, n_threads, wpos, acc,
                   wpc, wres, chunk_file, final_table, main_output>>

\* lines 310-320, one iteration of the loop over the worker's player ids
WorkerPlayer(w) ==
    /\ phase = "running"
    /\ wpc[w] = "loop"
    /\ wpos[w] <= Len(chunks[w])
    /\ LET got == PlayerFrames(chunks[w][wpos[w]], starting_fifa_version, <<>>)
       IN  IF got.raised
           THEN /\ wpc' = [wpc EXCEPT ![w] = "failed"]
                /\ UNCHANGED <<acc, wpos>>
           ELSE /\ acc' = [acc EXCEPT ![w] = acc[w] \o got.frames]
                /\ wpos' = [wpos EXCEPT ![w] = wpos[w] + 1]
                /\ UNCHANGED wpc
    /\ UNCHANGED <<splitVars, listVars, fetchVars, site, fileVars, player_ids, n_threads,
                   chunks, wres, chunk_file, phase, final_table, main_output>>

\* lines 322-333: the worker's frames are concatenated (ValueError when there
\* is none), the chunk file is written and the table returned
WorkerFinish(w) ==
    /\ phase = "running"
    /\ wpc[w] = "loop"
    /\ wpos[w] > Len(chunks[w])
    /\ IF acc[w] = <<>>
       THEN /\ wpc' = [wpc EXCEPT ![w] = "failed"]
            /\ UNCHANGED <<wres, chunk_file>>
       ELSE /\ wres' = [wres EXCEPT ![w] = PdConcat(acc[w])]
            /\ chunk_file' = [chunk_file EXCEPT ![w] =
                                 [present |-> TRUE, first_id |-> chunks[w][1],
                                  last_id |-> chunks[w][Len(chunks[w])],
                                  rows |-> PdConcat(acc[w])]]
            /\ wpc' = [wpc EXCEPT ![w] = "returned"]
    /\ UNCHANGED <<splitVars, listVars, fetchVars, site, fileVars, player_ids, n_threads,
                   chunks, wpos, acc, phase, final_table, main_output>>

\* lines 371-373 and main.py line 57: the tables are concatenated, returned
\* and written
PoolJoin ==
    /\ phase = "running"
    /\ StarmapReturns(wpc)
    /\ final_table' = Table(PdConcatIgnoreIndex([w \in Workers |-> wres[w]]))
    /\ main_output' = final_table'
    /\ phase' = "done"
    /\ UNCHANGED <<splitVars, listVars, fetchVars, site, fileVars, player_ids, n_threads,
                   chunks, wpos, acc, wpc, wres, chunk_file>>

\* lines 367-369: the exception of a worker leaves the with block, which
\* terminates the pool, and then main(); nothing is concatenated or written
PoolRaise ==
    /\ phase = "running"
    /\ StarmapRaises(wpc)
    /\ phase' = "WorkerError"
    /\ UNCHANGED <<splitVars, listVars, fetchVars, site, fileVars, player_ids, n_threads,
                   chunks, wpos, acc, wpc, wres, chunk_file, final_table, main_output>>

(***************************************************************************)
(* Initial states and specifications.                                      *)
(***************************************************************************)
Ids == 1..MaxId

\* the site with every update of the live ones served as a valid page
AllValid == [p \in Ids |-> [u \in 1..MaxLive |-> "valid"]]

SplitIdle ==
    /\ list_to_split = <<>> /\ n_split = 1 /\ splitted_list = <<>> /\ splitPc = "idle"

ListIdle ==
    /\ injected = <<>> /\ plain_text = <<>> /\ players_attributes_df = <<>>
    /\ listPc = "idle"

FetchIdle ==
    /\ fifa_version = ending_fifa_version /\ player_id = 1 /\ player_stats = LoopStart
    /\ fetchPc = "idle"

RunInit(n) ==
    /\ player_ids = <<>>
    /\ n_threads = n
    /\ chunks = [w \in 1..n |-> <<>>]
    /\ wpos = [w \in 1..n |-> 1]
    /\ acc = [w \in 1..n |-> <<>>]
    /\ wpc = [w \in 1..n |-> "loop"]
    /\ wres = [w \in 1..n |-> <<>>]
    /\ chunk_file = [w \in 1..n |-> [present |-> FALSE, first_id |-> 0, last_id |-> 0,
                                     rows |-> <<>>]]
    /\ final_table = NoTable
    /\ main_output = NoTable

RunIdle ==
    /\ RunInit(1) /\ phase = "idle"
    /\ attr_file = [present |-> FALSE, ids |-> {}]
    /\ stats_files = FALSE
    /\ prior_file = [present |-> FALSE, idcol |-> "", ids |-> {}]

---------------------------------------------------------------------------
\* SpecSplit: _compute_id_splits on every id sequence and worker count
InitSplit ==
    /\ list_to_split \in SeqsUpTo(Ids, MaxLen)
    /\ n_split \in 1..(MaxThreads + 1)
    /\ splitted_list = <<>>
    /\ splitPc = "start"
    /\ ListIdle /\ FetchIdle /\ RunIdle /\ site = AllValid

Split ==
    /\ splitPc = "start"
    /\ splitted_list' = compute_id_splits(list_to_split, n_split)
    /\ splitPc' = "returned"
    /\ UNCHANGED <<list_to_split, n_split, listVars, fetchVars, site, fileVars, runVars>>

NextSplit == Split

SpecSplit == InitSplit /\ [][NextSplit]_vars

---------------------------------------------------------------------------
\* SpecListing: extract_player_attributes on every page of at most MaxRows rows
InitListing ==
    /\ injected \in SeqsUpTo(InjectedRows, MaxRows)
    /\ plain_text = [i \in DOMAIN injected |-> RenderRow(injected[i])]
    /\ players_attributes_df = <<>>
    /\ listPc = "start"
    /\ SplitIdle /\ FetchIdle /\ RunIdle /\ site = AllValid

ExtractAttributes ==
    /\ listPc = "start"
    /\ LET got == extract_player_attributes(plain_text)
       IN  /\ players_attributes_df' = got.df
           /\ listPc' = IF got.raised THEN "raised" ELSE "returned"
    /\ UNCHANGED <<injected, plain_text, splitVars, fetchVars, site, fileVars, runVars>>

NextListing == ExtractAttributes

SpecListing == InitListing /\ [][NextListing]_vars

---------------------------------------------------------------------------
\* SpecFetch: one player, one version of the catalogue, every kind of page on
\* the live updates of that player
InitFetch ==
    /\ fifa_version \in DOMAIN LAST_UPDATE_PER_FIFA_VERSION
    /\ player_id \in Ids
    /\ site \in {[AllValid EXCEPT ![player_id] = kinds] :
                    kinds \in [1..MaxLive -> PageKinds]}
    /\ player_stats = LoopStart
    /\ fetchPc = "loop"
    /\ SplitIdle /\ ListIdle /\ RunIdle

FetchStep ==
    /\ fetchPc = "loop"
    /\ player_stats.upd <= LastRequested(fifa_version)
    /\ player_stats' = LoopBody(player_stats, player_id, fifa_version)
    /\ fetchPc' = IF player_stats'.raised THEN "raised" ELSE "loop"
    /\ UNCHANGED <<fifa_version, player_id, site, splitVars, listVars, fileVars, runVars>>

FetchReturn ==
    /\ fetchPc = "loop"
    /\ player_stats.upd > LastRequested(fifa_version)
    /\ player_stats' = LoopReturn(player_stats)
    /\ fetchPc' = IF player_stats'.raised THEN "raised" ELSE "returned"
    /\ UNCHANGED <<fifa_version, player_id, site, splitVars, listVars, fileVars, runVars>>

NextFetch == FetchStep \/ FetchReturn

SpecFetch == InitFetch /\ [][NextFetch]_vars

---------------------------------------------------------------------------
\* Spec: main() from the files it finds to the table it writes
\* the listing file holds the ids 1..k
AttrFiles ==
    {[present |-> FALSE, ids |-> {}]} \cup {[present |-> TRUE, ids |-> 1..k] : k \in 0..MaxId}

\* a prior statistics file covers at most MaxPrior ids; its id column is the
\* one the scraper writes or the one main() reads
PriorFiles ==
    {[present |-> FALSE, idcol |-> "", ids |-> {}]}
    \cup [present : {TRUE}, idcol : {OutputIdColumn, ResumeIdColumn},
          ids : {S \in SUBSET Ids : Cardinality(S) <= MaxPrior}]

\* the site has the updates 1..live of the version; one page may be odd
Sites ==
    LET Base(live) == [p \in Ids |-> [u \in 1..MaxLive |->
                          IF u <= live THEN "valid" ELSE "mismatch"]]
    IN  {Base(live) : live \in 0..MaxLive}
        \cup {[Base(live) EXCEPT ![p][u] = k] :
                 live \in 0..MaxLive, p \in Ids, u \in 1..MaxLive,
                 k \in {"malformed", "mismatch"}}

Init ==
    /\ attr_file \in AttrFiles
    /\ stats_files \in BOOLEAN
    /\ prior_file \in PriorFiles
    /\ site \in Sites
    /\ \E n \in 1..MaxThreads : RunInit(n)
    /\ phase = "start"
    /\ SplitIdle /\ ListIdle /\ FetchIdle

Next ==
    \/ MainStart
    \/ \E w \in Workers : WorkerPlayer(w)
    \/ \E w \in Workers : WorkerFinish(w)
    \/ PoolJoin
    \/ PoolRaise

Spec == Init /\ [][Next]_vars

(***************************************************************************)
(* The claims.                                                             *)
(***************************************************************************)
Abs(x) == IF x < 0 THEN -x ELSE x

\* C1: for every id sequence of length M >= 0 and every worker count N >= 1,
\* _compute_id_splits returns exactly N contiguous chunks whose in-order
\* concatenation is the original sequence, and any two chunk sizes differ by
\* at most one.
C1_SplitIsBalancedPartition ==
    splitPc = "returned" =>
        /\ Len(splitted_list) = n_split
        /\ Flatten(splitted_list) = list_to_split
        /\ \A i, j \in DOMAIN splitted_list :
               Abs(Len(splitted_list[i]) - Len(splitted_list[j])) <= 1

\* three ids over two workers: chunks of two and one ids
C1_Witness ==
    /\ splitPc = "returned"
    /\ Len(list_to_split) = 3 /\ n_split = 2
    /\ Len(splitted_list[1]) = 2 /\ Len(splitted_list[2]) = 1

\* the record a well-formed row is expected to give: its injected values
InjectedRecord(inj) ==
    [ID |-> inj.player.ID, Name |-> inj.player.Name,
     Nationality |-> inj.player.Nationality, Overall |-> inj.player.Overall,
     Potential |-> inj.player.Potential, Club |-> inj.player.Club,
     Value |-> inj.player.Value]

\* C7: for a listing page whose table body has K >= 0 well-formed rows,
\* extract_player_attributes returns exactly K records, in row order, record
\* i holding the id, name, nationality, overall, potential, club and value
\* of row i.
C7_OneRecordPerListedRow ==
    (\A i \in DOMAIN injected : injected[i].defect = "none") =>
        /\ listPc # "raised"
        /\ listPc = "returned" =>
               /\ Len(players_attributes_df) = Len(injected)
               /\ \A i \in DOMAIN injected :
                      players_attributes_df[i] = InjectedRecord(injected[i])

\* two rows of different players, the first with whitespace around its texts
C7_Witness ==
    /\ listPc = "returned"
    /\ Len(players_attributes_df) = 2
    /\ injected[1].pad = 1
    /\ players_attributes_df[1] # players_attributes_df[2]

\* the number of updates the catalogue knows for the version being fetched
KnownUpdates == LAST_UPDATE_PER_FIFA_VERSION[fifa_version]

\* the page of update u carries a version banner, of another version
BannerOfOtherVersion(pid, ver, u) ==
    LET page == Page(StatsUrl(pid, ver, u))
    IN  /\ page.banner.prefix = "FIFA"
        /\ page.banner.version # <<>>
        /\ page.banner.version # Digits(ver)

\* C2: for a fetched detail page whose version banner does not match the
\* requested game version, retrieve_player_stats_by_fifa_update produces no
\* record for that update and raises no error; the loop over the updates
\* goes on to the next update.
C2_MismatchedUpdateIsSkipped ==
    \A u \in 1..KnownUpdates :
        (u <= Len(player_stats.requests)
         /\ BannerOfOtherVersion(player_id, fifa_version, u)) =>
            /\ player_stats.raisedAt # u
            /\ player_stats.upd > u
            /\ player_stats.frames[u] = <<>>
            /\ \A i \in DOMAIN player_stats.df : player_stats.df[i].stats.update # u

\* the first update is of another version, the second one gives a row
C2_Witness ==
    /\ fetchPc = "returned"
    /\ BannerOfOtherVersion(player_id, fifa_version, 1)
    /\ Len(player_stats.df) = 1
    /\ player_stats.df[1].stats.update = 2

\* C3: for a game version with C known updates,
\* retrieve_player_stats_by_fifa_version issues exactly C page requests for a
\* player, one per update 1..C in increasing order, and returns at most C
\* rows: one row per update whose page validated, none for the others.
C3_OneRequestPerKnownUpdate ==
    fetchPc = "returned" =>
        /\ player_stats.requests =
               [u \in 1..KnownUpdates |-> StatsUrl(player_id, fifa_version, u)]
        /\ Len(player_stats.df) <= KnownUpdates
        /\ \A u \in 1..KnownUpdates :
               Cardinality({i \in DOMAIN player_stats.df :
                               player_stats.df[i].stats =
                                   [owner |-> player_id, version |-> fifa_version,
                                    update |-> u]})
               = IF KindServed(StatsUrl(player_id, fifa_version, u)) = "valid"
                 THEN 1 ELSE 0
        /\ \A i \in DOMAIN player_stats.df :
               player_stats.df[i].stats.update \in 1..KnownUpdates

\* version 17 with its 99 known updates, of which fewer gave a row
C3_Witness ==
    /\ fetchPc = "returned"
    /\ Len(player_stats.requests) = 99
    /\ Len(player_stats.df) >= 1
    /\ Len(player_stats.df) < Len(player_stats.requests)

\* main() has called download_historical_player_statistics
DownloadCalled == phase \in {"running", "done", "WorkerError"}

\* C4: when the pipeline is re-run with a prior statistics output present
\* whose id set is P, and the full id set of the listing is F, the ids passed
\* to the statistics download are F \ P exactly: no covered id is fetched
\* again, no uncovered id is omitted, no id appears twice.
C4_ResumeFetchesDifference ==
    (phase # "start" /\ attr_file.present /\ ~stats_files /\ prior_file.present) =>
        /\ DownloadCalled
        /\ Range(player_ids) = attr_file.ids \ prior_file.ids
        /\ Len(player_ids) = Cardinality(attr_file.ids \ prior_file.ids)

\* the pages that validate among those of the ids handed to the download
ValidatedPages ==
    {pg \in [owner : Range(player_ids),
             version : starting_fifa_version..ending_fifa_version,
             update : 1..LAST_UPDATE_PER_FIFA_VERSION[ending_fifa_version]] :
        /\ pg.update <= LAST_UPDATE_PER_FIFA_VERSION[pg.version]
        /\ KindServed(StatsUrl(pg.owner, pg.version, pg.update)) = "valid"}

\* C5: end to end, when every fetched page is structurally well formed, the
\* final table returned by download_historical_player_statistics holds
\* exactly one row for each (player id, game version, update) whose page
\* validated and no other row, and every row is tagged with the id of the
\* player it was fetched for.
C5_OneTaggedRowPerValidatedPage ==
    phase = "done" =>
        /\ final_table.present
        /\ \A pg \in ValidatedPages :
               Cardinality({i \in DOMAIN final_table.rows :
                               final_table.rows[i].stats = pg}) = 1
        /\ \A i \in DOMAIN final_table.rows :
               /\ final_table.rows[i].stats \in ValidatedPages
               /\ final_table.rows[i].player_id = final_table.rows[i].stats.owner

\* two workers, at least three rows, and a player whose first update is of
\* another version while the second one validates
C5_Witness ==
    /\ phase = "done"
    /\ n_threads = 2
    /\ Len(final_table.rows) >= 3
    /\ \E p \in Range(player_ids) : site[p][1] = "mismatch" /\ site[p][2] = "valid"

\* worker w raised while fetching a player: a page failed to parse
FailedOnPage(w) == wpc[w] = "failed" /\ wpos[w] <= Len(chunks[w])

\* C6 as claimed: when one worker aborts on an unhandled failure while the
\* other workers complete, the run still ends with a final table that
\* contains the rows of the workers that completed.
C6_PartialFailureYieldsSmallerTable ==
    (/\ phase \in {"done", "WorkerError"}
     /\ \E w \in Workers :
            /\ FailedOnPage(w)
            /\ Workers \ {w} # {}
            /\ \A v \in Workers \ {w} : wpc[v] = "returned") =>
        /\ final_table.present
        /\ \A v \in Workers : wpc[v] = "returned" =>
               \A i \in DOMAIN wres[v] :
                   \E k \in DOMAIN final_table.rows :
                       /\ final_table.rows[k].stats = wres[v][i].stats
                       /\ final_table.rows[k].player_id = wres[v][i].player_id

\* C6 as amended: when a worker aborts, the download raises the worker's
\* exception: no final table is returned and main() writes none; the rows of
\* the workers that completed are held by the chunk files those workers wrote.
C6_FailureRaisesAndKeepsChunkFiles ==
    /\ (\E w \in Workers : wpc[w] = "failed") =>
           /\ phase \in {"running", "WorkerError"}
           /\ final_table = NoTable
           /\ main_output = NoTable
    /\ \A v \in Workers : wpc[v] = "returned" =>
           /\ chunk_file[v].present
           /\ chunk_file[v].rows = wres[v]

\* the run ended on a worker's exception raised on a page, while another
\* worker had completed with rows
C6_Witness ==
    /\ phase = "WorkerError"
    /\ \E w \in Workers : FailedOnPage(w)
    /\ \E v \in Workers : wpc[v] = "returned" /\ wres[v] # <<>>
    /\ final_table = NoTable

\* C8: every row of the final table returned by
\* download_historical_player_statistics still carries the update date
\* extracted for its update.
C8_FinalRowsKeepUpdateDate ==
    phase = "done" =>
        \A i \in DOMAIN final_table.rows :
            final_table.rows[i].index =
                parse_fifa_update_date(
                    Page(StatsUrl(final_table.rows[i].stats.owner,
                                  final_table.rows[i].stats.version,
                                  final_table.rows[i].stats.update)))

\* a row without its index
Unindexed(row) == [stats |-> row.stats, player_id |-> row.player_id]

Copies(x, rows) == Cardinality({i \in DOMAIN rows : Unindexed(rows[i]) = x})

RECURSIVE CopiesInWorkers(_, _)
\* the copies of x in the tables of the workers 1..w
CopiesInWorkers(x, w) ==
    IF w = 0 THEN 0 ELSE Copies(x, wres[w]) + CopiesInWorkers(x, w - 1)

\* the rows one worker given every id would accumulate
SequentialRows ==
    Flatten([i \in DOMAIN player_ids |->
                Flatten(PlayerFrames(player_ids[i], starting_fifa_version, <<>>).frames)])

\* a step changes the loop state or the table of at most one worker, and
\* then leaves the final table alone
WorkersAreIsolated ==
    \A w \in Workers :
        (acc'[w] # acc[w] \/ wres'[w] # wres[w] \/ wpos'[w] # wpos[w] \/ wpc'[w] # wpc[w]) =>
            /\ \A v \in Workers \ {w} :
                   acc'[v] = acc[v] /\ wres'[v] = wres[v] /\ wpos'[v] = wpos[v]
                   /\ wpc'[v] = wpc[v]
            /\ final_table' = final_table

\* the final table exists only once every worker returned, and its rows are
\* the union of the workers' tables, which is what one worker would give
JoinIsUnionOfWorkers ==
    final_table.present =>
        /\ \A w \in Workers : wpc[w] = "returned"
        /\ \A x \in {Unindexed(final_table.rows[i]) : i \in DOMAIN final_table.rows}
                    \cup UNION {{Unindexed(wres[w][i]) : i \in DOMAIN wres[w]} : w \in Workers} :
               Copies(x, final_table.rows) = CopiesInWorkers(x, n_threads)
        /\ SeqToBag([i \in DOMAIN final_table.rows |-> Unindexed(final_table.rows[i])])
               = SeqToBag([i \in DOMAIN SequentialRows |-> Unindexed(SequentialRows[i])])

\* C9: under every interleaving of the N workers' fetch steps, each worker
\* writes only its own accumulator, the concatenation into the final table
\* happens only after all N workers have returned, and the multiset of rows
\* of the final table is the same for every interleaving: the union of the N
\* per-worker tables.
C9_IsolatedWorkersJoinedOnce ==
    /\ []JoinIsUnionOfWorkers
    /\ [][WorkersAreIsolated]_vars

\* two workers with rows each, joined
C9_Witness ==
    /\ phase = "done"
    /\ n_threads = 2
    /\ wres[1] # <<>> /\ wres[2] # <<>>
    /\ Len(chunks[1]) = 2

\* C10: for every id count M >= 0 and worker count N >= 1, including M < N
\* where some chunks are empty, and with every fetched page well formed,
\* each worker's task completes without error and the download returns a
\* table.
C10_EveryWorkerCompletes ==
    (/\ DownloadCalled
     /\ \A p \in Range(player_ids) : \A u \in 1..MaxLive :
            site[p][u] \in {"valid", "mismatch"}) =>
        /\ \A w \in Workers : wpc[w] # "failed"
        /\ phase # "WorkerError"

====
